---- MODULE Spec2Model ----
(***************************************************************************)
(* A model of app.py: the Whisper transcription service.                   *)
(*                                                                         *)
(*   Spec        the /transcribe pipeline (load_model, extract_audio,      *)
(*               transcribe_audio, extract_info, the temp files)           *)
(*   SpecInfo    extract_info as a pure function over bounded texts        *)
(*   SpecExport  concurrent /download_excel requests on the shared file    *)
(*                                                                         *)
(* A Python str is a sequence of pieces: single characters for transcripts *)
(* (so that the regular expressions work on them), one whole literal for a *)
(* fixed message.  The empty sequence is the empty str.                    *)
(***************************************************************************)
EXTENDS Integers, Sequences, FiniteSets, TLC

VARIABLES
    \* ---- the /transcribe pipeline
    whisper_model,      \* the global of line 16: None or the loaded model
    got_first_request,  \* whether the before_first_request hook has run
    loads,              \* how many times load_model ran
    pc,                 \* each request's position in transcribe()
    video_path,         \* transcribe()'s local, per request
    audio_path,         \* transcribe()'s local, per request
    audio_error,        \* transcribe()'s local, per request
    transcription,      \* transcribe()'s local, per request
    transcribe_error,   \* transcribe()'s local, per request
    temp_audio,         \* extract_audio's temp file of line 36, per request
    clip,               \* the VideoFileClip handle of line 39, per request
    disk,               \* the temp files that exist
    stages,             \* the stages each request has called, in order
    pending,            \* the value a return statement has produced
    response,           \* the response sent, per request
    whisper_calls,      \* whisper_model.transcribe calls: the model's value at each
    direct,             \* the last direct call of transcribe_audio: the model then, the result
    request_files,      \* request.files' field names, per request
    \* ---- extract_info
    text,               \* the argument
    data,               \* the returned dict
    \* ---- /download_excel
    epc,                \* each export request's position in download_excel()
    body,               \* request.get_json(), per export request
    row,                \* the DataFrame's single row, per request
    written,            \* how many columns of the row the request has written
    xlsx,               \* the content of transcription_data.xlsx
    eresponse           \* the response sent, per export request

pipeVars == <<whisper_model, got_first_request, loads, pc, video_path, audio_path,
              audio_error, transcription, transcribe_error, temp_audio, clip, disk,
              stages, pending, response, whisper_calls, direct, request_files>>
infoVars == <<text, data>>
exportVars == <<epc, body, row, written, xlsx, eresponse>>
vars == <<pipeVars, infoVars, exportVars>>

(***************************************************************************)
(* Bounds                                                                  *)
(***************************************************************************)
MaxRequests == 2
MaxFragments == 3
MaxExports == 2

Requests == 1..MaxRequests
Exports == 1..MaxExports

(***************************************************************************)
(* Python values                                                           *)
(***************************************************************************)
\* Python's None; no str of the model equals it.
None == <<"None">>
\* A key that a dict or a response body does not have, a local not yet bound.
Absent == <<"absent">>

\* bool(x) of a value that is None or a str: `if audio_error:`.
Truthy(x) == x # None /\ x # <<>>

RECURSIVE Concat(_)
Concat(ss) == IF ss = <<>> THEN <<>> ELSE Head(ss) \o Concat(Tail(ss))

(***************************************************************************)
(* extract_info (lines 59-88)                                              *)
(***************************************************************************)
UpperCase == <<"A","B","C","D","E","F","G","H","I","J","K","L","M",
               "N","O","P","Q","R","S","T","U","V","W","X","Y","Z">>
LowerCase == <<"a","b","c","d","e","f","g","h","i","j","k","l","m",
               "n","o","p","q","r","s","t","u","v","w","x","y","z">>

UpperSet == { UpperCase[i] : i \in DOMAIN UpperCase }
LowerSet == { LowerCase[i] : i \in DOMAIN LowerCase }

\* re.IGNORECASE compares characters case-folded.
ToLower(c) ==
    IF c \in UpperSet
    THEN LowerCase[CHOOSE i \in DOMAIN UpperCase : UpperCase[i] = c]
    ELSE c

\* \s, within the characters of the model.
IsSpace(c) == c \in {" ", "\n", "\t"}
\* The character class [A-Za-z\s] of every pattern's group.
InClass(c) == c \in UpperSet \/ c \in LowerSet \/ IsSpace(c)

\* Each pattern is a literal followed by the group ([A-Za-z\s]+); the
\* sequences below are the literals, in the order of the source's lists.
name_patterns_reversed ==
    << <<"i","'","m"," ">>,
       <<"t","h","i","s"," ","i","s"," ","m","e"," ">>,
       <<"i"," ","a","m"," ">>,
       <<"m","y","s","e","l","f"," ">>,
       <<"m","y"," ","n","a","m","e"," ","i","s"," ">> >>
name_patterns ==
    << <<"m","y"," ","n","a","m","e"," ","i","s"," ">>,
       <<"m","y","s","e","l","f"," ">>,
       <<"i"," ","a","m"," ">>,
       <<"t","h","i","s"," ","i","s"," ","m","e"," ">>,
       <<"i","'","m"," ">> >>
location_patterns ==
    << <<"i","'","m"," ","f","r","o","m"," ">>,
       <<"i"," ","l","i","v","e"," ","i","n"," ">>,
       <<"i"," ","a","m"," ","f","r","o","m"," ">>,
       <<"t","h","e","n"," ","i"," ","m","o","v","e","d"," ","t","o"," ">> >>

\* The literal matches s at position i, ignoring case.
LiteralAt(lit, s, i) ==
    /\ i + Len(lit) - 1 <= Len(s)
    /\ \A k \in 1..Len(lit) : ToLower(s[i + k - 1]) = ToLower(lit[k])

\* The whole pattern matches at i: the literal, then at least one character
\* of the class.
MatchAt(lit, s, i) ==
    /\ LiteralAt(lit, s, i)
    /\ i + Len(lit) <= Len(s)
    /\ InClass(s[i + Len(lit)])

\* re.search: the start of the leftmost match at or after i, 0 for no match.
RECURSIVE re_search_from(_, _, _)
re_search_from(lit, s, i) ==
    IF i > Len(s) THEN 0
    ELSE IF MatchAt(lit, s, i) THEN i
    ELSE re_search_from(lit, s, i + 1)

re_search(lit, s) == re_search_from(lit, s, 1)

\* The last position of the greedy run of class characters that starts at j.
RECURSIVE RunEnd(_, _)
RunEnd(s, j) ==
    IF j + 1 <= Len(s) /\ InClass(s[j + 1]) THEN RunEnd(s, j + 1) ELSE j

\* match.group(1) of the match that starts at i.
group1(lit, s, i) == SubSeq(s, i + Len(lit), RunEnd(s, i + Len(lit)))

\* str.strip()
RECURSIVE lstrip(_)
lstrip(s) == IF s # <<>> /\ IsSpace(Head(s)) THEN lstrip(Tail(s)) ELSE s
RECURSIVE rstrip(_)
rstrip(s) ==
    IF s # <<>> /\ IsSpace(s[Len(s)]) THEN rstrip(SubSeq(s, 1, Len(s) - 1)) ELSE s
strip(s) == rstrip(lstrip(s))

\* The loops of lines 76-80 and 82-86: the first pattern, from the k-th on,
\* that matches gives the value; None when none does.
RECURSIVE first_match(_, _, _)
first_match(patterns, s, k) ==
    IF k > Len(patterns) THEN None
    ELSE LET m == re_search(patterns[k], s)
         IN  IF m # 0 THEN strip(group1(patterns[k], s, m))
             ELSE first_match(patterns, s, k + 1)

\* re.search raises TypeError for a text that is not a str.
extract_info_raises(s) == s = None
TypeErrorMessage == <<"expected string or bytes-like object">>

extract_info(s) ==
    [name |-> first_match(name_patterns, s, 1),
     location |-> first_match(location_patterns, s, 1)]

\* The texts extract_info is applied to: up to MaxFragments fragments, joined.
Fragments ==
    { <<"m","y"," ","n","a","m","e"," ","i","s"," ","A","l">>,
      <<"m","y","s","e","l","f"," ","C","y">>,
      <<"i"," ","a","m"," ","D","i">>,
      <<"t","h","i","s"," ","i","s"," ","m","e"," ","E","d">>,
      <<"i","'","m"," ","F","l","o">>,
      <<"I","'","m"," ","f","r","o","m"," ","R","o","m","e">>,
      <<"i"," ","l","i","v","e"," ","i","n"," ","O","s","l","o">>,
      <<"i"," ","a","m"," ","f","r","o","m"," ","N","i","c","e">>,
      <<"t","h","e","n"," ","i"," ","m","o","v","e","d"," ","t","o"," ","B","o","n","n">>,
      <<" ",".">>,
      <<"i","'","m"," ">> }

Texts ==
    { Concat(fs) : fs \in UNION { [1..n -> Fragments] : n \in 0..MaxFragments } }

\* No call of extract_info has returned yet.
NoData == [name |-> Absent, location |-> Absent]


(***************************************************************************)
(* The /transcribe pipeline                                                *)
(***************************************************************************)
\* whisper.load_model("medium", ...)'s result.
Loaded == <<"medium">>

\* The temp files of request r: NamedTemporaryFile gives each a fresh name.
VideoFile(r) == <<"mp4", r>>
AudioFile(r) == <<"wav", r>>

\* str(e) of an exception a collaborator raises; an exception raised without
\* arguments has the empty message.
Messages == { <<>>, <<"decoder failed">> }

FfmpegMessage == <<"ffmpeg is not installed or not working properly">>
NoAudioMessage == <<"No audio stream found in video">>
NotLoadedMessage == <<"Whisper model not loaded">>
NoVideoMessage == <<"No video file provided">>

\* What whisper_model.transcribe produces.
Transcripts ==
    { <<"m","y"," ","n","a","m","e"," ","i","s"," ","A","l">>,
      <<"."," ">> }

\* What VideoFileClip and write_audiofile do with the staged video.
ClipOutcomes ==
    { [kind |-> "ok", msg |-> None],
      [kind |-> "no_audio", msg |-> None] }
    \cup { [kind |-> k, msg |-> m] : k \in {"open_raises", "write_raises"}, m \in Messages }

\* What whisper_model.transcribe does with the audio file.
WhisperOutcomes ==
    { [kind |-> "text", text |-> t, msg |-> None] : t \in Transcripts }
    \cup { [kind |-> "raises", text |-> None, msg |-> m] : m \in Messages }

\* What request.files holds.
FileFields == { {}, {"video"}, {"notes"} }

\* jsonify(...) with a status.
Json(status, error, transcript, info) ==
    [kind |-> "json", status |-> status, error |-> error,
     transcription |-> transcript, extracted_info |-> info]
\* The framework's answer to an exception that leaves the handler.
Unhandled ==
    [kind |-> "unhandled", status |-> 500, error |-> Absent,
     transcription |-> Absent, extracted_info |-> NoData]
NoResponse ==
    [kind |-> "none", status |-> 0, error |-> Absent,
     transcription |-> Absent, extracted_info |-> NoData]

\* Line 103.
video_missing_never(fields) == FALSE
video_missing(fields) == "video" \notin fields

\* Line 51.
model_is_none_never(model) == FALSE
model_is_none(model) == model = None

\* extract_audio of request r's staged video: the pair it returns, the temp
\* file it created and the state it leaves the clip handle in.  Only the
\* successful path calls clip.close(); on the others the handle is released
\* only if the runtime finalises the clip object when the frame is dropped.
extract_audio(r, ffmpeg_ok, outcome, finalised) ==
    LET leaked == IF finalised THEN "closed" ELSE "open"
    IN
    IF ~ffmpeg_ok
    THEN [audio_path |-> None, error |-> FfmpegMessage, temp |-> None, clip |-> "none"]
    ELSE CASE outcome.kind = "open_raises" ->
                [audio_path |-> None, error |-> outcome.msg,
                 temp |-> AudioFile(r), clip |-> "none"]
           [] outcome.kind = "no_audio" ->
                [audio_path |-> None, error |-> NoAudioMessage,
                 temp |-> AudioFile(r), clip |-> leaked]
           [] outcome.kind = "write_raises" ->
                [audio_path |-> None, error |-> outcome.msg,
                 temp |-> AudioFile(r), clip |-> leaked]
           [] outcome.kind = "ok" ->
                [audio_path |-> AudioFile(r), error |-> None,
                 temp |-> AudioFile(r), clip |-> "closed"]

\* transcribe_audio: the pair it returns and whether it called the model.
transcribe_audio(model, path, outcome) ==
    IF model_is_none(model)
    THEN [text |-> None, error |-> NotLoadedMessage, invoked |-> FALSE]
    ELSE IF outcome.kind = "text"
         THEN [text |-> outcome.text, error |-> None, invoked |-> TRUE]
         ELSE [text |-> None, error |-> outcome.msg, invoked |-> TRUE]

\* The model cannot decode a path that is None: the call raises.
Decodable(path, outcome) == path = None => outcome.kind = "raises"

NoCall == [model |-> Absent, text |-> Absent, error |-> Absent]

PipeInit ==
    /\ whisper_model = None
    /\ got_first_request = FALSE
    /\ loads = 0
    /\ pc = [r \in Requests |-> "idle"]
    /\ video_path = [r \in Requests |-> Absent]
    /\ audio_path = [r \in Requests |-> Absent]
    /\ audio_error = [r \in Requests |-> Absent]
    /\ transcription = [r \in Requests |-> Absent]
    /\ transcribe_error = [r \in Requests |-> Absent]
    /\ temp_audio = [r \in Requests |-> Absent]
    /\ clip = [r \in Requests |-> "none"]
    /\ disk = {}
    /\ stages = [r \in Requests |-> <<>>]
    /\ pending = [r \in Requests |-> NoResponse]
    /\ response = [r \in Requests |-> NoResponse]
    /\ whisper_calls = {}
    /\ direct = NoCall
    /\ request_files = [r \in Requests |-> {}]

\* Requests are numbered in the order they arrive.
Arrives(r) == pc[r] = "idle" /\ \A q \in Requests : q < r => pc[q] # "idle"

\* Lines 18-22: the hook runs once, before the first request is handled.
load_model(r) ==
    /\ UNCHANGED <<infoVars, exportVars>>
    /\ Arrives(r)
    /\ ~got_first_request
    /\ whisper_model' = Loaded
    /\ got_first_request' = TRUE
    /\ loads' = loads + 1
    /\ UNCHANGED <<pc, video_path, audio_path, audio_error, transcription,
                   transcribe_error, temp_audio, clip, disk, stages, pending,
                   response, whisper_calls, direct, request_files>>

\* Lines 103-110: the check for the file part, then the staging of the video.
transcribe_receive(r) ==
    /\ UNCHANGED <<infoVars, exportVars>>
    /\ Arrives(r)
    /\ got_first_request
    /\ \E fields \in FileFields :
        /\ request_files' = [request_files EXCEPT ![r] = fields]
        /\ IF video_missing(fields)
           THEN /\ response' = [response EXCEPT
                                  ![r] = Json(400, NoVideoMessage, Absent, NoData)]
                /\ pc' = [pc EXCEPT ![r] = "done"]
                /\ UNCHANGED <<video_path, disk, stages>>
           ELSE /\ video_path' = [video_path EXCEPT ![r] = VideoFile(r)]
                /\ disk' = disk \cup {VideoFile(r)}
                /\ stages' = [stages EXCEPT ![r] = Append(@, "stage")]
                /\ pc' = [pc EXCEPT ![r] = "extract"]
                /\ UNCHANGED response
    /\ UNCHANGED <<whisper_model, got_first_request, loads, audio_path, audio_error,
                   transcription, transcribe_error, temp_audio, clip, pending,
                   whisper_calls, direct>>

\* Lines 113-115 (and 127-128 when the error is raised).
transcribe_extract(r) ==
    /\ UNCHANGED <<infoVars, exportVars>>
    /\ pc[r] = "extract"
    /\ \E res \in { extract_audio(r, ffmpeg_ok, outcome, finalised) :
                        ffmpeg_ok \in BOOLEAN, outcome \in ClipOutcomes,
                        finalised \in BOOLEAN } :
            /\ audio_path' = [audio_path EXCEPT ![r] = res.audio_path]
            /\ audio_error' = [audio_error EXCEPT ![r] = res.error]
            /\ temp_audio' = [temp_audio EXCEPT ![r] = res.temp]
            /\ disk' = disk \cup ({res.temp} \ {None})
            /\ clip' = [clip EXCEPT ![r] = res.clip]
            /\ stages' = [stages EXCEPT ![r] = Append(@, "extract_audio")]
            /\ IF Truthy(res.error)
               THEN /\ pending' = [pending EXCEPT
                                     ![r] = Json(500, res.error, Absent, NoData)]
                    /\ pc' = [pc EXCEPT ![r] = "finally"]
               ELSE /\ pc' = [pc EXCEPT ![r] = "transcribe"]
                    /\ UNCHANGED pending
    /\ UNCHANGED <<whisper_model, got_first_request, loads, video_path, transcription,
                   transcribe_error, response, whisper_calls, direct, request_files>>

\* Lines 117-119 (and 127-128 when the error is raised).
transcribe_transcribe(r) ==
    /\ UNCHANGED <<infoVars, exportVars>>
    /\ pc[r] = "transcribe"
    /\ \E outcome \in WhisperOutcomes :
        /\ Decodable(audio_path[r], outcome)
        /\ LET res == transcribe_audio(whisper_model, audio_path[r], outcome)
           IN  /\ transcription' = [transcription EXCEPT ![r] = res.text]
               /\ transcribe_error' = [transcribe_error EXCEPT ![r] = res.error]
               /\ whisper_calls' = IF res.invoked
                                   THEN whisper_calls \cup {whisper_model}
                                   ELSE whisper_calls
               /\ stages' = [stages EXCEPT ![r] = Append(@, "transcribe_audio")]
               /\ IF Truthy(res.error)
                  THEN /\ pending' = [pending EXCEPT
                                        ![r] = Json(500, res.error, Absent, NoData)]
                       /\ pc' = [pc EXCEPT ![r] = "finally"]
                  ELSE /\ pc' = [pc EXCEPT ![r] = "respond"]
                       /\ UNCHANGED pending
    /\ UNCHANGED <<whisper_model, got_first_request, loads, video_path, audio_path,
                   audio_error, temp_audio, clip, disk, response, direct,
                   request_files>>

\* Lines 121-126 (and 127-128 when extract_info raises).
transcribe_respond(r) ==
    /\ UNCHANGED <<infoVars, exportVars>>
    /\ pc[r] = "respond"
    /\ stages' = [stages EXCEPT ![r] = Append(@, "extract_info")]
    /\ pending' = [pending EXCEPT ![r] =
                     IF extract_info_raises(transcription[r])
                     THEN Json(500, TypeErrorMessage, Absent, NoData)
                     ELSE Json(200, Absent, transcription[r],
                               extract_info(transcription[r]))]
    /\ pc' = [pc EXCEPT ![r] = "finally"]
    /\ UNCHANGED <<whisper_model, got_first_request, loads, video_path, audio_path,
                   audio_error, transcription, transcribe_error, temp_audio, clip,
                   disk, response, whisper_calls, direct, request_files>>

\* Lines 129-133.  audio_path is always bound here; os.path.exists(None)
\* raises TypeError, which replaces the pending return value and leaves the
\* handler.
transcribe_finally(r) ==
    /\ UNCHANGED <<infoVars, exportVars>>
    /\ pc[r] = "finally"
    /\ IF audio_path[r] = None
       THEN /\ disk' = disk \ {video_path[r]}
            /\ response' = [response EXCEPT ![r] = Unhandled]
       ELSE /\ disk' = (disk \ {video_path[r]}) \ {audio_path[r]}
            /\ response' = [response EXCEPT ![r] = pending[r]]
    /\ pc' = [pc EXCEPT ![r] = "done"]
    /\ UNCHANGED <<whisper_model, got_first_request, loads, video_path, audio_path,
                   audio_error, transcription, transcribe_error, temp_audio, clip,
                   stages, pending, whisper_calls, direct, request_files>>

\* transcribe_audio is a function of the module: a caller that imports the
\* module can call it before the application has handled its first request,
\* when load_model has not run yet.
call_transcribe_audio ==
    /\ UNCHANGED <<infoVars, exportVars>>
    /\ ~got_first_request
    /\ \E res \in { transcribe_audio(whisper_model, AudioFile(0), outcome) :
                        outcome \in WhisperOutcomes } :
        /\ direct' = [model |-> whisper_model, text |-> res.text, error |-> res.error]
        /\ whisper_calls' = IF res.invoked
                            THEN whisper_calls \cup {whisper_model}
                            ELSE whisper_calls
    /\ UNCHANGED <<whisper_model, got_first_request, loads, pc, video_path, audio_path,
                   audio_error, transcription, transcribe_error, temp_audio, clip,
                   disk, stages, pending, response, request_files>>

(***************************************************************************)
(* /download_excel (lines 135-152)                                         *)
(***************************************************************************)
NotApplicable == <<"N/A">>
AttributeErrorMessage == <<"'NoneType' object has no attribute 'get'">>
NoJsonMessage == <<"No JSON data provided">>

\* The columns of the DataFrame, in the order of lines 143-145.
Columns == <<"Location", "Name", "Transcription">>

\* request.get_json(): nothing, or a JSON object.  keys are the object's
\* keys; extracted_info is null or an object with the keys info_keys.  A key
\* that is not there has the value Absent.
Bodies ==
    { [kind |-> "null", keys |-> {}, transcription |-> Absent,
       info_kind |-> "absent", info_keys |-> {}, name |-> Absent, location |-> Absent] }
    \cup
    { [kind |-> "object", keys |-> ks,
       transcription |-> IF "transcription" \in ks THEN t ELSE Absent,
       info_kind |-> IF "extracted_info" \in ks THEN ik ELSE "absent",
       info_keys |-> IF "extracted_info" \in ks /\ ik = "object" THEN iks ELSE {},
       name |-> IF "extracted_info" \in ks /\ ik = "object" /\ "name" \in iks
                THEN n ELSE Absent,
       location |-> IF "extracted_info" \in ks /\ ik = "object" /\ "location" \in iks
                    THEN <<"R","o","m","e">> ELSE Absent] :
        ks \in SUBSET {"transcription", "extracted_info"},
        t \in { <<"h","i">> },
        ik \in {"null", "object"},
        iks \in SUBSET {"name", "location"},
        n \in { <<"A","l">> } }

\* `not data`: no JSON at all, or an empty object.
not_data(b) == b.kind = "null" \/ b.keys = {}

\* data.get("extracted_info", {}) is not a dict: .get on it raises.
info_get_raises(b) == "extracted_info" \in b.keys /\ b.info_kind # "object"

\* dict.get(key, default) of a dict with the keys `keys`.
dict_get(keys, key, value, default) == IF key \in keys THEN value ELSE default

\* Lines 142-146.
build_row_swapped(b) ==
    [Location |-> dict_get(b.info_keys, "name", b.name, NotApplicable),
     Name |-> dict_get(b.info_keys, "location", b.location, NotApplicable),
     Transcription |-> dict_get(b.keys, "transcription", b.transcription, <<>>)]
build_row(b) ==
    [Location |-> dict_get(b.info_keys, "location", b.location, NotApplicable),
     Name |-> dict_get(b.info_keys, "name", b.name, NotApplicable),
     Transcription |-> dict_get(b.keys, "transcription", b.transcription, <<>>)]

NoRow == [Location |-> Absent, Name |-> Absent, Transcription |-> Absent]
NoBody == [kind |-> "none", keys |-> {}, transcription |-> Absent,
           info_kind |-> "absent", info_keys |-> {}, name |-> Absent,
           location |-> Absent]
\* A part of the file that no writer has filled.
Hole == <<"hole">>

\* The file's content when it holds exactly this row.
FileOf(rw) == [k \in DOMAIN Columns |-> rw[Columns[k]]]

\* A write of cell c at offset k of the file f.
RECURSIVE write_at(_, _, _)
write_at(f, k, c) ==
    IF k <= Len(f) THEN [f EXCEPT ![k] = c]
    ELSE IF k = Len(f) + 1 THEN Append(f, c)
    ELSE write_at(Append(f, Hole), k, c)

EResponse(status, error) == [status |-> status, error |-> error]
NoEResponse == EResponse(0, Absent)

ExportInit ==
    /\ epc = [e \in Exports |-> "idle"]
    /\ body = [e \in Exports |-> NoBody]
    /\ row = [e \in Exports |-> NoRow]
    /\ written = [e \in Exports |-> 0]
    /\ xlsx = <<>>
    /\ eresponse = [e \in Exports |-> NoEResponse]

EArrives(e) == epc[e] = "idle" /\ \A q \in Exports : q < e => epc[q] # "idle"

\* Lines 137-149, up to to_excel's opening of the file, which truncates it.
download_excel(e) ==
    /\ UNCHANGED <<pipeVars, infoVars>>
    /\ EArrives(e)
    /\ \E b \in Bodies :
        /\ body' = [body EXCEPT ![e] = b]
        /\ IF not_data(b)
           THEN /\ eresponse' = [eresponse EXCEPT
                                   ![e] = EResponse(400, NoJsonMessage)]
                /\ epc' = [epc EXCEPT ![e] = "done"]
                /\ UNCHANGED <<row, xlsx>>
           ELSE IF info_get_raises(b)
           THEN /\ eresponse' = [eresponse EXCEPT
                                   ![e] = EResponse(500, AttributeErrorMessage)]
                /\ epc' = [epc EXCEPT ![e] = "done"]
                /\ UNCHANGED <<row, xlsx>>
           ELSE /\ row' = [row EXCEPT ![e] = build_row(b)]
                /\ xlsx' = <<>>
                /\ epc' = [epc EXCEPT ![e] = "to_excel"]
                /\ UNCHANGED eresponse
    /\ UNCHANGED written

\* Line 149: to_excel writes the file piece by piece, each piece at the
\* writer's own offset; nothing keeps another request from writing between.
to_excel_write(e) ==
    /\ UNCHANGED <<pipeVars, infoVars>>
    /\ epc[e] = "to_excel"
    /\ LET k == written[e] + 1
       IN  /\ xlsx' = write_at(xlsx, k, row[e][Columns[k]])
           /\ written' = [written EXCEPT ![e] = k]
           /\ epc' = [epc EXCEPT ![e] = IF k = Len(Columns) THEN "send_file" ELSE @]
    /\ UNCHANGED <<body, row, eresponse>>

\* Line 150.
send_file(e) ==
    /\ UNCHANGED <<pipeVars, infoVars>>
    /\ epc[e] = "send_file"
    /\ eresponse' = [eresponse EXCEPT ![e] = EResponse(200, Absent)]
    /\ epc' = [epc EXCEPT ![e] = "done"]
    /\ UNCHANGED <<body, row, written, xlsx>>

(***************************************************************************)
(* extract_info applied to a text                                          *)
(***************************************************************************)
InfoIdle == text = <<>> /\ data = NoData
InfoInit == text \in Texts /\ data = NoData

call_extract_info ==
    /\ UNCHANGED <<pipeVars, exportVars>>
    /\ data = NoData
    /\ data' = extract_info(text)
    /\ UNCHANGED text

(***************************************************************************)
(* Specifications                                                          *)
(***************************************************************************)
Init == PipeInit /\ InfoIdle /\ ExportInit
Next ==
    \/ \E r \in Requests : load_model(r)
    \/ \E r \in Requests : transcribe_receive(r)
    \/ \E r \in Requests : transcribe_extract(r)
    \/ \E r \in Requests : transcribe_transcribe(r)
    \/ \E r \in Requests : transcribe_respond(r)
    \/ \E r \in Requests : transcribe_finally(r)
    \/ call_transcribe_audio
Spec == Init /\ [][Next]_vars

InitInfo == PipeInit /\ InfoInit /\ ExportInit
NextInfo == call_extract_info
SpecInfo == InitInfo /\ [][NextInfo]_vars

InitExport == PipeInit /\ InfoIdle /\ ExportInit
NextExport ==
    \/ \E e \in Exports : download_excel(e)
    \/ \E e \in Exports : to_excel_write(e)
    \/ \E e \in Exports : send_file(e)
SpecExport == InitExport /\ [][NextExport]_vars

(***************************************************************************)
(* The claims                                                              *)
(***************************************************************************)
StagesOf(r) == { stages[r][i] : i \in DOMAIN stages[r] }
Staged(r) == "stage" \in StagesOf(r)
\* transcribe() of request r has returned and the response is on its way.
Responded(r) == pc[r] = "done"

\* C1: when the response of a request that staged a video is sent, neither
\* the staged video temp file nor the audio temp file created for the request
\* exists on disk, whichever stage failed.
C1_NoTempFileAtResponse ==
    \A r \in Requests :
        Responded(r) /\ Staged(r) =>
            /\ video_path[r] \notin disk
            /\ temp_audio[r] \notin disk

\* C2: a request whose audio extraction reports no audio stream ends with a
\* status-500 response carrying "No audio stream found in video", and its
\* staged video temp file has been removed.
C2_NoAudioStreamResponse ==
    \A r \in Requests :
        Responded(r) /\ audio_error[r] = NoAudioMessage =>
            /\ response[r].status = 500
            /\ response[r].error = NoAudioMessage
            /\ video_path[r] \notin disk

\* The stage has run for request r and has failed: it returned an error.
AudioFailed(r) == audio_error[r] # Absent /\ audio_error[r] # None
TranscribeFailed(r) == transcribe_error[r] # Absent /\ transcribe_error[r] # None

\* C3: every failure of the extract-audio or transcribe stage is answered with
\* the JSON envelope {error: the stage's message} and status 500; no exception
\* leaves the handler and the response holds no transcription or
\* extracted_info.
C3_FailureEnvelope ==
    \A r \in Requests :
        Responded(r) /\ (AudioFailed(r) \/ TranscribeFailed(r)) =>
            /\ response[r].kind = "json"
            /\ response[r].status = 500
            /\ response[r].error =
                   (IF AudioFailed(r) THEN audio_error[r] ELSE transcribe_error[r])
            /\ response[r].transcription = Absent
            /\ response[r].extracted_info = NoData

\* C4: a request without a `video` file part is answered with status 400 and
\* an error field, no temp file is created for it and no stage runs.
C4_MissingVideo ==
    \A r \in Requests :
        pc[r] # "idle" /\ "video" \notin request_files[r] =>
            /\ Responded(r)
            /\ response[r].kind = "json"
            /\ response[r].status = 400
            /\ response[r].error # Absent
            /\ stages[r] = <<>>
            /\ video_path[r] = Absent /\ temp_audio[r] = Absent
            /\ VideoFile(r) \notin disk /\ AudioFile(r) \notin disk
            /\ clip[r] = "none"

\* A request without the file part has been answered while another request's
\* staged video is on disk.
C4_Witness ==
    \E r, q \in Requests :
        /\ Responded(r) /\ request_files[r] = {"notes"} /\ response[r].status = 400
        /\ pc[q] = "extract" /\ VideoFile(q) \in disk

\* C8: the model's transcribe is never called while the model is not loaded;
\* transcribe_audio with the model unset returns (None, "Whisper model not
\* loaded"); the model is loaded once, before the first request is handled,
\* and not again.
C8_LoadBeforeUse ==
    /\ None \notin whisper_calls
    /\ direct.model = None =>
           direct.text = None /\ direct.error = NotLoadedMessage
    /\ loads <= 1
    /\ \A r \in Requests :
        /\ pc[r] # "idle" => whisper_model = Loaded /\ loads = 1
        /\ "transcribe_audio" \in StagesOf(r) =>
               transcribe_error[r] # NotLoadedMessage

\* transcribe_audio was called with the model unset and returned the error;
\* later the model was loaded and a request was transcribed with it.
C8_Witness ==
    /\ direct.model = None /\ direct.error = NotLoadedMessage
    /\ whisper_calls = {Loaded}
    /\ \E r \in Requests : Responded(r) /\ response[r].status = 200

\* C9: the stages of a request run in the order stage, extract audio,
\* transcribe, extract fields; transcription is called only if audio
\* extraction returned no error, field extraction only if transcription
\* returned no error, and a 200 response with transcription and
\* extracted_info is produced only if all of them succeeded.
StageOrder == <<"stage", "extract_audio", "transcribe_audio", "extract_info">>
C9_StageOrder ==
    \A r \in Requests :
        /\ Len(stages[r]) <= Len(StageOrder)
        /\ stages[r] = SubSeq(StageOrder, 1, Len(stages[r]))
        /\ "transcribe_audio" \in StagesOf(r) => audio_error[r] = None
        /\ "extract_info" \in StagesOf(r) => transcribe_error[r] = None
        /\ response[r].status = 200 =>
              /\ stages[r] = StageOrder
              /\ audio_error[r] = None /\ transcribe_error[r] = None
              /\ response[r].transcription = transcription[r]
              /\ response[r].extracted_info = extract_info(transcription[r])

\* C10: once extract_audio has returned, the clip handle it opened is
\* released, on every outcome.
C10_ClipReleased ==
    \A r \in Requests :
        "extract_audio" \in StagesOf(r) => clip[r] # "open"

\* C7: the name is taken from the first pattern, in the order "my name is",
\* "myself", "i am", "this is me", "i'm", that matches anywhere in the text,
\* whatever the positions of the matches; the location likewise, from its own
\* patterns and independently of the name.
ClaimedNameOrder ==
    << <<"m","y"," ","n","a","m","e"," ","i","s"," ">>,
       <<"m","y","s","e","l","f"," ">>,
       <<"i"," ","a","m"," ">>,
       <<"t","h","i","s"," ","i","s"," ","m","e"," ">>,
       <<"i","'","m"," ">> >>
ClaimedLocationOrder ==
    << <<"i","'","m"," ","f","r","o","m"," ">>,
       <<"i"," ","l","i","v","e"," ","i","n"," ">>,
       <<"i"," ","a","m"," ","f","r","o","m"," ">>,
       <<"t","h","e","n"," ","i"," ","m","o","v","e","d"," ","t","o"," ">> >>
Matches(lit, s) == \E i \in 1..Len(s) : MatchAt(lit, s, i)
Leftmost(lit, s) ==
    CHOOSE i \in 1..Len(s) :
        MatchAt(lit, s, i) /\ \A j \in 1..(i - 1) : ~MatchAt(lit, s, j)
CaptureOf(lit, s) == strip(group1(lit, s, Leftmost(lit, s)))
Chosen(order, s) ==
    IF \E k \in DOMAIN order : Matches(order[k], s)
    THEN LET k == CHOOSE k \in DOMAIN order :
                     /\ Matches(order[k], s)
                     /\ \A j \in 1..(k - 1) : ~Matches(order[j], s)
         IN  CaptureOf(order[k], s)
    ELSE None
C7_PatternPriority ==
    data # NoData =>
        /\ data.name = Chosen(ClaimedNameOrder, text)
        /\ data.location = Chosen(ClaimedLocationOrder, text)

\* "i'm Y" occurs before "my name is X" in the text, and the name is X.
C7_Witness ==
    /\ data # NoData
    /\ Matches(ClaimedNameOrder[1], text) /\ Matches(ClaimedNameOrder[5], text)
    /\ Leftmost(ClaimedNameOrder[5], text) < Leftmost(ClaimedNameOrder[1], text)
    /\ data.name = CaptureOf(ClaimedNameOrder[1], text)
    /\ data.name # CaptureOf(ClaimedNameOrder[5], text)
    /\ data.location = None

\* The body is a non-empty JSON object whose extracted_info, if there, is an
\* object.
Exportable(b) ==
    /\ b.kind = "object" /\ b.keys # {}
    /\ "extracted_info" \in b.keys => b.info_kind = "object"
HasInfo(b, key) == "extracted_info" \in b.keys /\ key \in b.info_keys
\* Export e is the only request that has touched the file.
Alone(e) == \A q \in Exports \ {e} : epc[q] = "idle"

\* C5 as stated: each of the three columns holds the body's field, and "N/A"
\* when the field is missing, the transcription included.
C5_RowAllNotApplicable ==
    \A e \in Exports :
        epc[e] # "idle" /\ Exportable(body[e]) =>
            /\ row[e].Location =
                 (IF HasInfo(body[e], "location") THEN body[e].location ELSE <<"N/A">>)
            /\ row[e].Name =
                 (IF HasInfo(body[e], "name") THEN body[e].name ELSE <<"N/A">>)
            /\ row[e].Transcription =
                 (IF "transcription" \in body[e].keys
                  THEN body[e].transcription ELSE <<"N/A">>)

\* C5, amended: Location and Name are "N/A" when missing, Transcription is the
\* empty string when missing; a request that runs alone leaves exactly this
\* row in the file.
C5_Row ==
    \A e \in Exports :
        epc[e] # "idle" /\ Exportable(body[e]) =>
            /\ row[e].Location =
                 (IF HasInfo(body[e], "location") THEN body[e].location ELSE <<"N/A">>)
            /\ row[e].Name =
                 (IF HasInfo(body[e], "name") THEN body[e].name ELSE <<"N/A">>)
            /\ row[e].Transcription =
                 (IF "transcription" \in body[e].keys
                  THEN body[e].transcription ELSE <<>>)
            /\ Alone(e) /\ epc[e] \in {"send_file", "done"} =>
                   xlsx = <<row[e].Location, row[e].Name, row[e].Transcription>>

\* A request with a name, no location and no transcription has written its
\* row and been answered.
C5_Witness ==
    \E e \in Exports :
        /\ epc[e] = "done" /\ eresponse[e].status = 200 /\ Alone(e)
        /\ body[e].keys = {"extracted_info"} /\ body[e].info_keys = {"name"}
        /\ xlsx = << <<"N/A">>, body[e].name, <<>> >>

\* C6: when two export requests with different payloads have both finished,
\* the file holds the row of exactly one of them, never a mixture.
Wrote(e) == epc[e] = "done" /\ eresponse[e].status = 200
====
